---- MODULE Spec2Model ----
(***************************************************************************)
(* Model of the initramfs crate (src/src/lib.rs): the "new ASCII" cpio     *)
(* codec, the Archive builder, and the Initramfs container parse / write.  *)
(*                                                                         *)
(* Conventions                                                             *)
(*   - a byte buffer (Vec<u8>) is a sequence of 0..255; source indices are *)
(*     0-based, so byte i of the source is data[i+1] here;                 *)
(*   - a u32 is the pair <<hi, lo>> of its 16-bit halves                   *)
(*     (value = hi * 65536 + lo), which keeps the full 32-bit width;       *)
(*   - usize is 64 bits wide: index arithmetic never overflows.            *)
(***************************************************************************)
EXTENDS Integers, Sequences, FiniteSets, TLC

VARIABLES
    data,       \* the input buffer handed to Initramfs::parse
    pc,         \* position of the running operation
    index,      \* the scan index (Initramfs::parse / Archive::parse / File::parse)
    archives,   \* Initramfs::parse: archives pushed so far
    files,      \* Archive.files (being parsed, or being built)
    header,     \* File::parse: the decoded CpioHeader
    filename,   \* File::parse: the filename bytes collected so far
    checksum,   \* File::parse: the running payload checksum
    payload,    \* the payload slice as runs <<byte, count>>, and the runs summed
    result,     \* outcome of the operation: None, Ok, Err(..) or Panic(..)
    out,        \* the buffer Initramfs::write appends to
    align_arg,  \* parse_align_to_4: the index argument of the latest call
    arch_arg    \* Archive::parse: the index argument of the running call

vars == <<data, pc, index, archives, files, header, filename, checksum,
          payload, result, out, align_arg, arch_arg>>

(***************************************************************************)
(* Program constants                                                       *)
(***************************************************************************)
HeaderLen == 110
RecordAlign == 4
ArchiveAlign == 4096

TRAILER == <<84, 82, 65, 73, 76, 69, 82, 33, 33, 33>>
Magic1 == <<48, 55, 48, 55, 48, 49>>
Magic2 == <<48, 55, 48, 55, 48, 50>>

(***************************************************************************)
(* u32 values                                                              *)
(***************************************************************************)
\* n as u32, for 0 <= n < 2^31
U32(n) == <<n \div 65536, n % 65536>>

Zero32 == <<0, 0>>

\* v as usize is below 2^31, hence can be compared with a buffer length
IsSmall(v) == v[1] < 32768

ToInt(v) == v[1] * 65536 + v[2]

(***************************************************************************)
(* Results                                                                 *)
(***************************************************************************)
None == [tag |-> "None", kind |-> "", prop |-> "", args |-> <<>>]
Ok == [tag |-> "Ok", kind |-> "", prop |-> "", args |-> <<>>]
Err(kind, args) == [tag |-> "Err", kind |-> kind, prop |-> "", args |-> args]
ErrHex(prop, bytes) == [tag |-> "Err", kind |-> "InvalidHex", prop |-> prop, args |-> bytes]
Panic(what) == [tag |-> "Panic", kind |-> what, prop |-> "", args |-> <<>>]
UnexpectedEof == Err("UnexpectedEof", <<>>)

(***************************************************************************)
(* Slices: data.get(i), data.get(a..b)                                     *)
(***************************************************************************)
HasByte(buf, i) == i < Len(buf)

Byte(buf, i) == buf[i + 1]

HasRange(buf, a, b) == a <= b /\ b <= Len(buf)

Slice(buf, a, b) == SubSeq(buf, a + 1, b)

(***************************************************************************)
(* Hex codec                                                               *)
(***************************************************************************)
\* -1 stands for Err(InvalidHex)
parse_hex_nibble(byte) ==
    IF 48 <= byte /\ byte <= 57 THEN byte - 48
    ELSE IF 97 <= byte /\ byte <= 102 THEN byte - 97 + 10
    ELSE IF 65 <= byte /\ byte <= 70 THEN byte - 65 + 10
    ELSE -1

HexOk(field) == \A i \in 1..8 : parse_hex_nibble(field[i]) >= 0

parse_hex_be_u32(field) ==
    LET n(i) == parse_hex_nibble(field[i])
    IN  << n(1) * 4096 + n(2) * 256 + n(3) * 16 + n(4),
           n(5) * 4096 + n(6) * 256 + n(7) * 16 + n(8) >>

\* hex::encode_to_slice: lowercase digits
HexChar(n) == IF n < 10 THEN 48 + n ELSE 97 + (n - 10)

to_hex_be_u32(v) ==
    << HexChar(v[1] \div 4096), HexChar((v[1] \div 256) % 16),
       HexChar((v[1] \div 16) % 16), HexChar(v[1] % 16),
       HexChar(v[2] \div 4096), HexChar((v[2] \div 256) % 16),
       HexChar((v[2] \div 16) % 16), HexChar(v[2] % 16) >>

(***************************************************************************)
(* Alignment                                                               *)
(***************************************************************************)
AlignUp(n, a) == a * ((n + (a - 1)) \div a)

write_align_to(buf, align_to) ==
    buf \o [i \in 1..(AlignUp(Len(buf), align_to) - Len(buf)) |-> 0]

write_align_to_4(buf) == write_align_to(buf, RecordAlign)

\* data.get(index..new_index): None when new_index is past the end
AlignSlice(buf, i) ==
    IF HasRange(buf, i, AlignUp(i, RecordAlign))
    THEN Slice(buf, i, AlignUp(i, RecordAlign))
    ELSE <<>>

\* Ok(new_index), or Err(InvalidAlign(index + i, byte)) at the first non-zero
parse_align_to_4(buf, i) ==
    LET s == AlignSlice(buf, i)
        bad == {k \in 1..Len(s) : s[k] # 0}
    IN  IF bad = {}
        THEN [res |-> Ok, index |-> AlignUp(i, RecordAlign)]
        ELSE LET k == CHOOSE x \in bad : \A y \in bad : x <= y
             IN  [res |-> Err("InvalidAlign", <<i + (k - 1), s[k]>>), index |-> i]

\* while let Some(0) = data.get(index) { index += 1 }
parse_leading_zeroes(buf, i) ==
    LET stop == {j \in i..(Len(buf) - 1) : buf[j + 1] # 0}
    IN  IF stop = {} THEN (IF i < Len(buf) THEN Len(buf) ELSE i)
        ELSE CHOOSE j \in stop : \A k \in stop : j <= k

(***************************************************************************)
(* CpioHeader and RawCpioHeader                                            *)
(***************************************************************************)
FieldNames == <<"ino", "mode", "uid", "gid", "nlink", "mtime", "filesize",
                "maj", "min", "rmaj", "rmin", "namesize", "chksum">>

\* RawCpioHeader::new: field k (1..13) of the 110-byte array
RawField(array, k) == SubSeq(array, 6 + 8 * (k - 1) + 1, 6 + 8 * k)

RawMagic(array) == SubSeq(array, 1, 6)

MagicOk(array) == RawMagic(array) = Magic1 \/ RawMagic(array) = Magic2

\* CpioHeader::parse, when it fails: the magic first, then the fields in order
CpioHeader_parse_err(array) ==
    IF ~MagicOk(array)
    THEN Err("InvalidCpioHeaderMagic", RawMagic(array))
    ELSE LET k == CHOOSE x \in 1..13 :
                    /\ ~HexOk(RawField(array, x))
                    /\ \A y \in 1..(x - 1) : HexOk(RawField(array, y))
         IN  ErrHex(FieldNames[k], RawField(array, k))

CpioHeader_parse_ok(array) ==
    MagicOk(array) /\ \A k \in 1..13 : HexOk(RawField(array, k))

CpioHeader_parse(array) ==
    [ magic |-> IF RawMagic(array) = Magic1 THEN "WithoutChecksum" ELSE "WithChecksum",
      ino |-> parse_hex_be_u32(RawField(array, 1)),
      mode |-> parse_hex_be_u32(RawField(array, 2)),
      uid |-> parse_hex_be_u32(RawField(array, 3)),
      gid |-> parse_hex_be_u32(RawField(array, 4)),
      nlink |-> parse_hex_be_u32(RawField(array, 5)),
      mtime |-> parse_hex_be_u32(RawField(array, 6)),
      filesize |-> parse_hex_be_u32(RawField(array, 7)),
      maj |-> parse_hex_be_u32(RawField(array, 8)),
      min |-> parse_hex_be_u32(RawField(array, 9)),
      rmaj |-> parse_hex_be_u32(RawField(array, 10)),
      rmin |-> parse_hex_be_u32(RawField(array, 11)),
      namesize |-> parse_hex_be_u32(RawField(array, 12)),
      chksum |-> parse_hex_be_u32(RawField(array, 13)) ]

\* CpioHeader::to_cpio_header followed by RawCpioHeader::write
CpioHeader_write(h) ==
    (IF h.magic = "WithoutChecksum" THEN Magic1 ELSE Magic2)
    \o to_hex_be_u32(h.ino) \o to_hex_be_u32(h.mode) \o to_hex_be_u32(h.uid)
    \o to_hex_be_u32(h.gid) \o to_hex_be_u32(h.nlink) \o to_hex_be_u32(h.mtime)
    \o to_hex_be_u32(h.filesize) \o to_hex_be_u32(h.maj) \o to_hex_be_u32(h.min)
    \o to_hex_be_u32(h.rmaj) \o to_hex_be_u32(h.rmin)
    \o to_hex_be_u32(h.namesize) \o to_hex_be_u32(h.chksum)

(***************************************************************************)
(* File, Archive, Initramfs: construction and write                        *)
(***************************************************************************)
ends_with_slash(name) == Len(name) > 0 /\ name[Len(name)] = 47

\* the assert! of File::new
File_new_ok(name, bytes) == ~ends_with_slash(name) \/ bytes = <<>>

File_new(name, bytes) ==
    [ header |->
        [ magic |-> "WithoutChecksum",
          ino |-> Zero32,
          mode |-> IF ends_with_slash(name) THEN U32(16877) ELSE U32(33188),
          uid |-> Zero32, gid |-> Zero32, nlink |-> Zero32, mtime |-> Zero32,
          filesize |-> U32(Len(bytes)),
          maj |-> Zero32, min |-> U32(1), rmaj |-> Zero32, rmin |-> Zero32,
          namesize |-> U32(Len(name) + 1),
          chksum |-> Zero32 ],
      filename |-> name,
      data |-> bytes ]

File_write(file, buf) ==
    write_align_to_4(write_align_to_4(buf) \o CpioHeader_write(file.header)
                     \o file.filename \o <<0>>)
    \o file.data

RECURSIVE Files_write(_, _)
Files_write(fs, buf) ==
    IF fs = <<>> THEN buf
    ELSE Files_write(Tail(fs), File_write(Head(fs), buf))

Archive_write(fs, buf) == write_align_to(Files_write(fs, buf), ArchiveAlign)

\* every archive of a parsed Initramfs is MaybeRawArchive::Parsed
RECURSIVE Initramfs_write(_, _)
Initramfs_write(archs, buf) ==
    IF archs = <<>> THEN buf
    ELSE Initramfs_write(Tail(archs),
                         write_align_to_4(Archive_write(Head(archs), buf)))

IsTrailer(name) == name = TRAILER

\* the match guard of Archive::add_file
add_file_ok(fs) == fs = <<>> \/ ~IsTrailer(fs[Len(fs)].filename)

\* an append that keeps the caller's ino
add_file_keeps_ino(fs, file) == Append(fs, file)

add_file(fs, file) ==
    Append(fs, [file EXCEPT !.header.ino = U32(Len(fs))])

add_trailer(fs) == Append(fs, File_new(TRAILER, <<>>))

(***************************************************************************)
(* File::parse, the payload checksum (lines 188-193)                       *)
(*                                                                         *)
(* The payload is summed run by run: a run <<b, n>> stands for n           *)
(* consecutive payload bytes of value b, that is n iterations of           *)
(* `checksum += b as u32`.  b * n stays below 2^31.                        *)
(***************************************************************************)
\* the mathematical sum cs + n * b, as <<hi, lo>> with hi not reduced
RunSum(cs, run) ==
    LET total == run[1] * run[2]
        lo == cs[2] + (total % 65536)
    IN  << cs[1] + (total \div 65536) + (lo \div 65536), lo % 65536 >>

\* some `+=` of the run overflows u32
RunOverflows(cs, run) == RunSum(cs, run)[1] >= 65536

\* the value left by wrapping additions
RunWrapped(cs, run) == << RunSum(cs, run)[1] % 65536, RunSum(cs, run)[2] >>

\* the bytes of a slice as runs of one byte each, none summed yet
AsRuns(bytes) ==
    [runs |-> [i \in 1..Len(bytes) |-> <<bytes[i], 1>>], done |-> 0]

NoPayload == [runs |-> <<>>, done |-> 0]

\* the iterator of lines 189-193 has a next element
MoreRuns == payload.done < Len(payload.runs)

NextRun == payload.runs[payload.done + 1]

\* the match on header.magic, lines 196-203
verify_checksum(h, cs) ==
    IF h.magic = "WithoutChecksum"
    THEN IF h.chksum # Zero32
         THEN Err("InvalidChecksumNotZero", h.chksum)
         ELSE Ok
    ELSE IF h.chksum # cs
         THEN Err("InvalidChecksum", h.chksum \o cs)
         ELSE Ok

\* a scan that stops at the character '0' instead of the zero byte
NameByteAsciiZero(b) == b # 48

\* take_while(|&b| b != 0)
NameByte(b) == b # 0

\* a comparison with a misspelt marker
last_is_trailer_misspelt(fs) ==
    fs[Len(fs)].filename = <<84, 82, 65, 73, 76, 69, 82, 33, 33>>

\* line 120: files.last().unwrap().filename == b"TRAILER!!!"
last_is_trailer(fs) == fs[Len(fs)].filename = TRAILER

\* data.get(index..index + header.filesize as usize)
HasPayload(buf, i, filesize) ==
    IsSmall(filesize) /\ i <= Len(buf) /\ ToInt(filesize) <= Len(buf) - i

(***************************************************************************)
(* Initramfs::parse as a state machine.  `result` stays None while the     *)
(* parse runs; a step that returns Err or panics sets it and leaves pc at  *)
(* the statement that returned.                                            *)
(***************************************************************************)
Running == result = None

\* line 61: while index < initramfs.len()
ParseLoop ==
    /\ Running /\ pc = "parse" /\ index < Len(data)
    /\ pc' = "zeroes"
    /\ UNCHANGED <<data, index, archives, files, header, filename, checksum,
                   payload, result, out, align_arg, arch_arg>>

\* line 67: Ok(Initramfs { archives })
ParseReturn ==
    /\ Running /\ pc = "parse" /\ ~(index < Len(data))
    /\ result' = Ok
    /\ UNCHANGED <<data, pc, index, archives, files, header, filename, checksum,
                   payload, out, align_arg, arch_arg>>

\* lines 62-63: parse_leading_zeroes returns the index of the first byte that
\* is not zero (or the buffer's length); Archive::parse is entered there
ArchiveEnter ==
    /\ Running /\ pc = "zeroes"
    /\ index' = parse_leading_zeroes(data, index)
    /\ pc' = "archive"
    /\ files' = <<>>
    /\ arch_arg' = index'
    /\ UNCHANGED <<data, archives, header, filename, checksum,
                   payload, result, out, align_arg>>

\* line 116: while index < data.len(); File::parse(data, index) is entered
ArchiveLoop ==
    /\ Running /\ pc = "archive" /\ index < Len(data)
    /\ pc' = "file"
    /\ UNCHANGED <<data, index, archives, files, header, filename, checksum,
                   payload, result, out, align_arg, arch_arg>>

\* line 116, the buffer is exhausted
ArchiveExhausted ==
    /\ Running /\ pc = "archive" /\ ~(index < Len(data))
    /\ pc' = "archive_ret"
    /\ UNCHANGED <<data, index, archives, files, header, filename, checksum,
                   payload, result, out, align_arg, arch_arg>>

\* line 124 and lines 63-65: Ok((Archive { files }, index)); archives.push
ArchiveReturn ==
    /\ Running /\ pc = "archive_ret"
    /\ archives' = Append(archives, files)
    /\ pc' = "parse"
    /\ UNCHANGED <<data, index, files, header, filename, checksum,
                   payload, result, out, align_arg, arch_arg>>

\* line 170 (to = "header") and line 187 (to = "payload")
AlignStep(from, to) ==
    /\ Running /\ pc = from
    /\ align_arg' = index
    /\ LET r == parse_align_to_4(data, index)
       IN  IF r.res = Ok
           THEN index' = r.index /\ pc' = to /\ result' = result
           ELSE index' = index /\ pc' = pc /\ result' = r.res
    /\ UNCHANGED <<data, archives, files, header, filename, checksum,
                   payload, out, arch_arg>>

FileAlign == AlignStep("file", "header")

DataAlign == AlignStep("data_align", "payload")

\* lines 171-175: the 110 header bytes, RawCpioHeader::new, CpioHeader::parse
FileHeader ==
    /\ Running /\ pc = "header"
    /\ IF ~HasRange(data, index, index + HeaderLen)
       THEN result' = UnexpectedEof
            /\ UNCHANGED <<pc, index, header, filename>>
       ELSE LET array == Slice(data, index, index + HeaderLen)
            IN  IF CpioHeader_parse_ok(array)
                THEN /\ header' = CpioHeader_parse(array)
                     /\ index' = index + HeaderLen
                     /\ filename' = <<>>
                     /\ pc' = "name"
                     /\ result' = result
                ELSE /\ result' = CpioHeader_parse_err(array)
                     /\ UNCHANGED <<pc, index, header, filename>>
    /\ UNCHANGED <<data, archives, files, checksum, payload, out,
                   align_arg, arch_arg>>

\* the position the filename scan of lines 177-180 has reached
NamePos == index + Len(filename)

\* lines 177-180, one byte taken by take_while; data.get(index..) is Some,
\* the header having been read up to index
NameScan ==
    /\ Running /\ pc = "name"
    /\ HasByte(data, NamePos) /\ NameByte(Byte(data, NamePos))
    /\ filename' = Append(filename, Byte(data, NamePos))
    /\ UNCHANGED <<data, pc, index, archives, files, header, checksum,
                   payload, result, out, align_arg, arch_arg>>

\* lines 181-184: the scan is over (a zero byte, or the end of the buffer)
NameCheck ==
    /\ Running /\ pc = "name"
    /\ ~(HasByte(data, NamePos) /\ NameByte(Byte(data, NamePos)))
    /\ index' = index + Len(filename)
    /\ IF U32(Len(filename) + 1) # header.namesize
       THEN /\ result' = Err("InvalidFilenameLength",
                             U32(Len(filename) + 1) \o header.namesize)
            /\ pc' = pc
       ELSE /\ result' = result
            /\ pc' = "terminator"
    /\ UNCHANGED <<data, archives, files, header, filename, checksum,
                   payload, out, align_arg, arch_arg>>

\* lines 185-186: assert_eq!(0, *data.get(index).ok_or(UnexpectedEof)?)
Terminator ==
    /\ Running /\ pc = "terminator"
    /\ IF ~HasByte(data, index)
       THEN result' = UnexpectedEof /\ UNCHANGED <<pc, index>>
       ELSE IF Byte(data, index) # 0
       THEN result' = Panic("assert_eq") /\ UNCHANGED <<pc, index>>
       ELSE result' = result /\ index' = index + 1 /\ pc' = "data_align"
    /\ UNCHANGED <<data, archives, files, header, filename, checksum,
                   payload, out, align_arg, arch_arg>>

\* lines 188-190: the payload slice is taken
ReadPayload ==
    /\ Running /\ pc = "payload"
    /\ IF ~HasPayload(data, index, header.filesize)
       THEN result' = UnexpectedEof /\ UNCHANGED <<pc, checksum, payload>>
       ELSE /\ payload' = AsRuns(Slice(data, index, index + ToInt(header.filesize)))
            /\ checksum' = Zero32
            /\ pc' = "sum"
            /\ result' = result
    /\ UNCHANGED <<data, index, archives, files, header, filename, out,
                   align_arg, arch_arg>>

\* lines 191-193: a run of payload bytes is added, no addition overflows
SumRun ==
    /\ Running /\ pc = "sum" /\ MoreRuns
    /\ ~RunOverflows(checksum, NextRun)
    /\ checksum' = RunSum(checksum, NextRun)
    /\ payload' = [payload EXCEPT !.done = @ + 1]
    /\ UNCHANGED <<data, pc, index, archives, files, header, filename,
                   result, out, align_arg, arch_arg>>

\* line 192 overflows, build without overflow checks: the sum wraps
SumRunWrap ==
    /\ Running /\ pc = "sum" /\ MoreRuns
    /\ RunOverflows(checksum, NextRun)
    /\ checksum' = RunWrapped(checksum, NextRun)
    /\ payload' = [payload EXCEPT !.done = @ + 1]
    /\ UNCHANGED <<data, pc, index, archives, files, header, filename,
                   result, out, align_arg, arch_arg>>

\* line 192 overflows, build with overflow checks: the addition panics
SumRunPanic ==
    /\ Running /\ pc = "sum" /\ MoreRuns
    /\ RunOverflows(checksum, NextRun)
    /\ result' = Panic("attempt to add with overflow")
    /\ UNCHANGED <<data, pc, index, archives, files, header, filename,
                   checksum, payload, out, align_arg, arch_arg>>

\* lines 194-206: index += data.len(); the checksum is verified
VerifyChecksum ==
    /\ Running /\ pc = "sum" /\ ~MoreRuns
    /\ IF verify_checksum(header, checksum) = Ok
       THEN /\ index' = index + ToInt(header.filesize)
            /\ pc' = "file_ret"
            /\ result' = result
       ELSE /\ index' = index + ToInt(header.filesize)
            /\ pc' = pc
            /\ result' = verify_checksum(header, checksum)
    /\ UNCHANGED <<data, archives, files, header, filename, checksum,
                   payload, out, align_arg, arch_arg>>

\* the File that File::parse returns at line 206
ParsedFile ==
    [ header |-> header,
      filename |-> filename,
      data |-> Slice(data, index - ToInt(header.filesize), index) ]

\* lines 117-122: files.push(file); break on the trailer
FileReturn ==
    /\ Running /\ pc = "file_ret"
    /\ files' = Append(files, ParsedFile)
    /\ pc' = IF last_is_trailer(files') THEN "archive_ret" ELSE "archive"
    /\ UNCHANGED <<data, index, archives, header, filename, checksum,
                   payload, result, out, align_arg, arch_arg>>

\* main.rs lines 21-22: initramfs.write(&mut content2) on an empty buffer
Write ==
    /\ result = Ok /\ pc = "parse"
    /\ out' = Initramfs_write(archives, <<>>)
    /\ pc' = "written"
    /\ UNCHANGED <<data, index, archives, files, header, filename, checksum,
                   payload, result, align_arg, arch_arg>>

(***************************************************************************)
(* The builder: Archive::new(), then add_file and add_trailer calls.       *)
(* pc names the latest call.                                               *)
(***************************************************************************)
MaxFiles == 3

Names == {<<97>>, <<100, 47>>, TRAILER}
Payloads == {<<>>, <<7>>}
CallerInos == {Zero32, U32(5)}

\* archive.add_file(file), with file = File::new(name, bytes) and file.header.ino
\* then set by the caller
AddFile ==
    /\ Running /\ pc \in {"new", "add_file", "add_trailer"}
    /\ Len(files) < MaxFiles
    /\ \E name \in Names, bytes \in Payloads, ino \in CallerInos :
          IF ~File_new_ok(name, bytes)
          THEN result' = Panic("File::new") /\ UNCHANGED <<pc, files>>
          ELSE IF ~add_file_ok(files)
          THEN /\ result' = Panic("Archive::add_file called after trailer")
               /\ pc' = "add_file"
               /\ files' = files
          ELSE /\ files' = add_file(files,
                             [File_new(name, bytes) EXCEPT !.header.ino = ino])
               /\ pc' = "add_file"
               /\ result' = result
    /\ UNCHANGED <<data, index, archives, header, filename, checksum,
                   payload, out, align_arg, arch_arg>>

\* archive.add_trailer()
AddTrailer ==
    /\ Running /\ pc \in {"new", "add_file", "add_trailer"}
    /\ Len(files) < MaxFiles
    /\ files' = add_trailer(files)
    /\ pc' = "add_trailer"
    /\ UNCHANGED <<data, index, archives, header, filename, checksum,
                   payload, result, out, align_arg, arch_arg>>

(***************************************************************************)
(* Input buffers of Initramfs::parse                                       *)
(***************************************************************************)
MaxZeros == 4

Zeros(n) == [i \in 1..n |-> 0]
Prefix(buf, k) == SubSeq(buf, 1, k)
Subst(buf, p, v) == [buf EXCEPT ![p + 1] = v]

fA == File_new(<<97>>, <<1, 2, 3>>)
fT == File_new(TRAILER, <<>>)
fAB == File_new(<<97, 98>>, <<>>)
fDir == File_new(<<100, 47>>, <<>>)
fSum == [fA EXCEPT !.header.magic = "WithChecksum", !.header.chksum = U32(6)]
fSumBad == [fA EXCEPT !.header.magic = "WithChecksum", !.header.chksum = U32(7)]
fNotZero == [fA EXCEPT !.header.chksum = U32(6)]
fShortName == [File_new(<<97, 48, 98>>, <<>>) EXCEPT !.header.namesize = U32(2)]
fHuge == [fA EXCEPT !.header.filesize = <<65535, 65535>>]

\* two records, the second the trailer, no archive padding
ImgTwo == Files_write(<<fA, fT>>, <<>>)
\* a record following a trailer
ImgTrailerFirst == Files_write(<<fT, fA>>, <<>>)
\* one record whose name ends off a 4-byte boundary
ImgAB == File_write(fAB, <<>>)
\* Archive::new(), add_trailer(), write
ImgTrailer == Archive_write(add_trailer(<<>>), <<>>)
\* two archives as Initramfs::write lays them out
ImgMulti ==
    Initramfs_write(<< add_trailer(add_file(<<>>, fA)),
                       add_trailer(add_file(add_file(<<>>, fDir), fSum)) >>, <<>>)

SubstBytes == {0, 1, 65}

Inputs ==
    {Zeros(z) \o Prefix(ImgTwo, k) : z \in 0..MaxZeros, k \in 0..Len(ImgTwo)}
    \cup {ImgTwo \o Zeros(z) : z \in 1..MaxZeros}
    \cup {Subst(ImgTwo, p, v) : p \in 0..(Len(ImgTwo) - 1), v \in SubstBytes}
    \cup {Prefix(Subst(ImgAB, p, 1), k) :
              p \in HeaderLen..(Len(ImgAB) - 1), k \in HeaderLen..Len(ImgAB)}
    \cup {File_write(f, <<>>) : f \in {fSum, fSumBad, fNotZero, fShortName, fHuge, fDir}}
    \cup {ImgTrailerFirst, ImgTrailer, ImgMulti}

(***************************************************************************)
(* Specifications                                                          *)
(***************************************************************************)
NoHeader == File_new(<<>>, <<>>).header

Idle ==
    /\ index = 0 /\ archives = <<>> /\ files = <<>> /\ header = NoHeader
    /\ filename = <<>> /\ checksum = Zero32 /\ payload = NoPayload
    /\ result = None /\ out = <<>> /\ align_arg = 0 /\ arch_arg = 0

\* Initramfs::parse(&content) on a buffer, then write (main.rs lines 13-22)
Init == data \in Inputs /\ pc = "parse" /\ Idle

\* the buffers of Inputs are shorter than 2^24 bytes: no addition of line 192
\* overflows, SumRunWrap and SumRunPanic are never enabled
Next ==
    \/ ParseLoop \/ ParseReturn \/ ArchiveEnter
    \/ ArchiveLoop \/ ArchiveExhausted \/ ArchiveReturn
    \/ FileAlign \/ FileHeader \/ NameScan \/ NameCheck \/ Terminator
    \/ DataAlign \/ ReadPayload \/ SumRun \/ VerifyChecksum \/ FileReturn
    \/ Write

Spec == Init /\ [][Next]_vars

\* the parse is sequential code: it takes its next step whenever it has one;
\* the buffers of at most a few records
InitShort == data \in {d \in Inputs : Len(d) < ArchiveAlign} /\ pc = "parse" /\ Idle

FairSpec == InitShort /\ [][Next]_vars /\ WF_vars(Next)

\* the builder
InitBuild == data = <<>> /\ pc = "new" /\ Idle

NextBuild == AddFile \/ AddTrailer

SpecBuild == InitBuild /\ [][NextBuild]_vars

\* File::parse from line 188 on, for a record whose alignment, header, filename
\* and payload length are valid; the payload is given by its runs
MaxRuns == 3

RunSet == {<<255, 8388608>>, <<1, 1>>, <<200, 2>>}

RECURSIVE RunSeqs(_)
RunSeqs(n) ==
    IF n = 0 THEN {<<>>}
    ELSE RunSeqs(n - 1)
         \cup {Append(s, r) : s \in {t \in RunSeqs(n - 1) : Len(t) = n - 1}, r \in RunSet}

RECURSIVE RunCount(_)
RunCount(runs) == IF runs = <<>> THEN 0 ELSE Head(runs)[2] + RunCount(Tail(runs))

\* among them the sums of one run (0x7f800000) and of three runs (wrapped)
StoredSums == {Zero32, U32(1), U32(401), <<32640, 0>>, <<32384, 0>>}

InitSum ==
    /\ data = <<>> /\ pc = "sum" /\ index = 0 /\ archives = <<>> /\ files = <<>>
    /\ filename = <<97>> /\ checksum = Zero32 /\ result = None /\ out = <<>>
    /\ align_arg = 0 /\ arch_arg = 0
    /\ \E runs \in RunSeqs(MaxRuns), m \in {"WithoutChecksum", "WithChecksum"},
          c \in StoredSums :
          /\ payload = [runs |-> runs, done |-> 0]
          /\ header = [File_new(<<97>>, <<>>).header EXCEPT
                          !.magic = m, !.chksum = c,
                          !.filesize = U32(RunCount(runs))]

NextSum == SumRun \/ SumRunWrap \/ SumRunPanic \/ VerifyChecksum

SpecSum == InitSum /\ [][NextSum]_vars

(***************************************************************************)
(* Claims                                                                  *)
(***************************************************************************)
Returned == result # None

\* C1: whenever Initramfs::parse(b) returns Ok(i), i.write on an empty buffer
\* produces exactly b.
C1_RoundTrip == pc = "written" => out = data

\* C2: the archive built by Archive::new() and add_trailer() serializes to one
\* 110-byte header, the name TRAILER!!!\0 (11 bytes) padded to a 4-byte
\* boundary, no payload, and zeros up to 4096 bytes; Initramfs::parse of that
\* buffer succeeds with exactly one archive, holding exactly the trailer record.
C2_SingleEmptyArchive ==
    (data = ImgTrailer /\ Returned) =>
        /\ Len(ImgTrailer) = ArchiveAlign
        /\ ImgTrailer = CpioHeader_write(File_new(TRAILER, <<>>).header)
                        \o TRAILER \o <<0>>
                        \o Zeros(ArchiveAlign - (HeaderLen + 11))
        /\ result = Ok
        /\ Len(archives) = 1
        /\ Len(archives[1]) = 1
        /\ archives[1][1].filename = TRAILER

\* C3: in every archive built from Archive::new() by add_file and add_trailer
\* calls, a TRAILER!!! record can only be the last record, and a call made when
\* the last record is the trailer appends nothing.
C3_TrailerOnlyLast ==
    \A i \in 1..(Len(files) - 1) : files[i].filename # TRAILER

\* the sum of the payload bytes modulo 2^32
RECURSIVE SumMod32(_)
SumMod32(runs) ==
    IF runs = <<>> THEN Zero32
    ELSE LET rest == SumMod32(Tail(runs))
             total == Head(runs)[1] * Head(runs)[2]
             lo == rest[2] + (total % 65536)
         IN  << (rest[1] + (total \div 65536) + (lo \div 65536)) % 65536,
                lo % 65536 >>

SumEnded == pc = "file_ret" \/ Returned

\* C4: for a record that is valid up to its payload, File::parse fails with
\* InvalidChecksum(stored, computed) exactly when the magic is 070702 and the
\* stored chksum differs from the payload sum modulo 2^32, fails with
\* InvalidChecksumNotZero(stored) exactly when the magic is 070701 and the
\* stored chksum is nonzero, and succeeds otherwise; it never aborts.
C4_ChecksumEnforced ==
    SumEnded =>
        LET computed == SumMod32(payload.runs)
        IN  IF header.magic = "WithChecksum" /\ header.chksum # computed
            THEN result = Err("InvalidChecksum", header.chksum \o computed)
            ELSE IF header.magic = "WithoutChecksum" /\ header.chksum # Zero32
            THEN result = Err("InvalidChecksumNotZero", header.chksum)
            ELSE pc = "file_ret" /\ result = None

\* C5, as claimed: after any sequence of add_file and add_trailer calls the
\* record at position i has ino == i.
C5_InoIsPosition ==
    \A i \in 1..Len(files) : files[i].header.ino = U32(i - 1)

\* C5, amended: add_file sets the ino of the record it appends to the number of
\* records held before, overriding the caller's value; add_trailer appends the
\* trailer with ino 0 whatever that number; so every record at position i has
\* ino == i unless it is a TRAILER!!! record with ino 0.
C5_InoOfAddFile ==
    /\ \A i \in 1..Len(files) :
          \/ files[i].header.ino = U32(i - 1)
          \/ files[i].filename = TRAILER /\ files[i].header.ino = Zero32
    /\ (pc = "add_file" /\ Running) =>
          files[Len(files)].header.ino = U32(Len(files) - 1)
    /\ pc = "add_trailer" =>
          files[Len(files)].header.ino = Zero32

\* C5: add_file has renumbered a record, and add_trailer has appended the
\* trailer to an archive that already held records
C5_Witness ==
    /\ pc = "add_trailer" /\ Len(files) = 3
    /\ files[2].filename # TRAILER /\ files[2].header.ino = U32(1)
    /\ files[3].header.ino = Zero32

\* where the records fs end when laid out from position pos
RECURSIVE LayoutEnd(_, _)
LayoutEnd(pos, fs) ==
    IF fs = <<>> THEN pos
    ELSE LayoutEnd(AlignUp(AlignUp(pos, 4) + 110 + Len(Head(fs).filename) + 1, 4)
                       + Len(Head(fs).data),
                   Tail(fs))

\* where the name of the i-th record of the running Archive::parse lies: its
\* record ends at LayoutEnd, after the payload, the padded name and terminator
NameStart(i) ==
    LayoutEnd(arch_arg, SubSeq(files, 1, i)) - Len(files[i].data)
        - AlignUp(Len(files[i].filename) + 1 + 2, 4) + 2

\* C6: Archive::parse returns its records in order, stopping right after the
\* first record named TRAILER!!!, which is kept as the last one, with the index
\* just past that record's payload; without a trailer it returns all the
\* records with the index at the buffer's length.
C6_ArchiveParse ==
    (pc = "archive_ret" /\ Running /\ files # <<>>) =>
        /\ \A i \in 1..(Len(files) - 1) : files[i].filename # TRAILER
        /\ index = LayoutEnd(arch_arg, files)
        /\ \A i \in 1..Len(files) :
              files[i].filename =
                  Slice(data, NameStart(i), NameStart(i) + Len(files[i].filename))
        /\ files[Len(files)].filename # TRAILER => index = Len(data)

\* C6: an archive has ended at its trailer with bytes left, and the next one
\* ends without a trailer at the end of the buffer
C6_Witness ==
    /\ pc = "archive_ret" /\ Running
    /\ Len(archives) = 1 /\ archives[1][Len(archives[1])].filename = TRAILER
    /\ files # <<>> /\ files[Len(files)].filename # TRAILER
    /\ index = Len(data)

\* C7: once the header is decoded, a buffer that ends before any zero byte of
\* the filename makes File::parse fail with UnexpectedEof, whatever namesize.
C7_EofBeforeNamesize ==
    (Returned /\ pc \in {"name", "terminator"} /\ index = Len(data)) =>
        result = UnexpectedEof

AlignPassed == pc \in {"header", "payload"}
AlignFailed == pc \in {"file", "data_align"} /\ Returned

\* the positions of [index, a) inside the buffer that hold a non-zero byte
NonZeroPad ==
    {p \in align_arg..(AlignUp(align_arg, 4) - 1) :
         p < Len(data) /\ data[p + 1] # 0}

\* C8: parse_align_to_4 fails with InvalidAlign(p, v) for the smallest position
\* p of [index, a) inside the buffer holding a non-zero byte v, and returns
\* Ok(a) only if there is none, also when the buffer ends before a.
C8_AlignChecked ==
    (AlignPassed \/ AlignFailed) =>
        IF NonZeroPad # {}
        THEN LET p == CHOOSE x \in NonZeroPad : \A y \in NonZeroPad : x <= y
             IN  AlignFailed /\ result = Err("InvalidAlign", <<p, data[p + 1]>>)
        ELSE AlignPassed /\ index = AlignUp(align_arg, 4)

\* C9: the parse always ends by returning Ok or Err.
C9_ParseReturns == result.tag \in {"None", "Ok", "Err"}

\* the position the parse has scanned to
ScanPos == IF pc = "name" THEN NamePos ELSE index

\* On buffers too short for line 192 to overflow: no step moves the scan
\* backwards, the filename scan advances at each byte, File::parse and
\* Archive::parse hand back an index within the buffer, an archive that parsed a
\* record ends past its start, and one that parsed none ends the buffer.
ScanAdvances ==
    [][/\ ScanPos' >= ScanPos
       /\ (pc = "name" /\ pc' = "name" /\ Running') => ScanPos' > ScanPos
       /\ pc' \in {"file_ret", "archive", "archive_ret", "parse", "written"}
             => index' <= Len(data)
       /\ (pc' = "archive_ret" /\ files' # <<>>) => index' > arch_arg'
       /\ (pc' = "archive_ret" /\ files' = <<>>) => index' = Len(data)
       /\ pc' \in {"zeroes", "file"} => index' < Len(data)]_vars

\* On those buffers Initramfs::parse returns.
ParseTerminates == <>Returned

\* C10: when File::parse reaches the assertion on the filename terminator, the
\* byte at the index is absent or zero: the assertion never fails.
C10_TerminatorIsZero ==
    /\ result # Panic("assert_eq")
    /\ (pc = "terminator" /\ Running) =>
          (~HasByte(data, index) \/ Byte(data, index) = 0)

\* C10: the assertion is reached with a byte at the index, after a filename
\* was scanned
C10_Witness ==
    pc = "terminator" /\ Running /\ HasByte(data, index) /\ filename # <<>>

====
